---- MODULE Spec2Model ----
(***************************************************************************)
(* Model of listing.py: the listing scraper (scrape_listing), the nearest  *)
(* target-area selection (haversine, get_nearest_area), the JSON file      *)
(* store (load_data, save_data) and the three HTTP handlers (get_listings, *)
(* add_listing, delete_listing).                                           *)
(*                                                                         *)
(* Representation                                                          *)
(*   - Python's None is the empty tuple, a present value x is <<x>>.       *)
(*   - A text is a sequence of tokens; the empty string is <<>>.           *)
(*   - The value of an HTML attribute is a sequence of characters.         *)
(*   - A coordinate is an integer number of 1/10000 degrees.               *)
(*   - haversine() is in whole metres; a distance rounded to two decimals  *)
(*     of a kilometre is an integer number of 1/100 km.                    *)
(*   - str(uuid.uuid4()) is the next value of a counter (never reused).    *)
(***************************************************************************)
EXTENDS Integers, Sequences, FiniteSets, TLC

VARIABLES
    file,      \* listings.json: [exists |-> BOOLEAN, items |-> Seq(JSON object)]
    nextId,    \* number of uuid4 values drawn so far
    last,      \* outcome of the last completed request (sequential handlers)
    scr,       \* outcome of the last scrape_listing / get_nearest_area call
    pc,        \* per worker thread: position inside its handler
    req,       \* per worker thread: the request it is serving
    loc,       \* per worker thread: the handler's local list (listings / data)
    acks,      \* responses already sent by the worker threads
    served,    \* number of requests accepted by the worker threads
    raced      \* history: a handler loaded the file while another one was between
               \* its load_data and its save_data

vars == <<file, nextId, last, scr, pc, req, loc, acks, served, raced>>

-----------------------------------------------------------------------------
(* Bounds of the model *)

MaxIds == 3        \* uuid4 values drawn in one run
MaxRequests == 3   \* requests accepted by the worker threads in one run

-----------------------------------------------------------------------------
(* Optional values and texts *)

None == <<>>
Some(x) == <<x>>
EmptyText == <<>>

RECURSIVE Concat(_, _)
\* "sep".join(texts): the texts with the separator token between them
Concat(texts, sep) ==
    IF texts = <<>> THEN EmptyText
    ELSE IF Len(texts) = 1 THEN Head(texts)
    ELSE Head(texts) \o <<sep>> \o Concat(Tail(texts), sep)

-----------------------------------------------------------------------------
(* TARGET_AREAS, in the insertion order of the dict literal ("Toolo" is the   *)
(* first key, written without its diaereses)                                 *)

TARGET_AREAS ==
    << [name |-> "Toolo",     lat |-> 601826, lon |-> 249221],
       [name |-> "Kallio",    lat |-> 601854, lon |-> 249525],
       [name |-> "Punavuori", lat |-> 601595, lon |-> 249384] >>

AreaNames == {TARGET_AREAS[i].name : i \in DOMAIN TARGET_AREAS}

\* The latitudes and longitudes the model feeds to haversine (1/10000 degree).
Lats == {0, 601595, 601746, 601826, 601854}
Lons == {0, 249221, 249384, 249408, 249525}

\* haversine(lat, lon, area) of the source, evaluated at the modelled points,
\* in whole metres (floor), one column per target area in TARGET_AREAS order:
\*   R = 6371; a = sin(dlat/2)^2 + cos(lat1) cos(lat2) sin(dlon/2)^2;
\*   d = R * 2 * atan2(sqrt(a), sqrt(1 - a))
HaversineMetres ==
    ( <<0, 0>>           :> <<7027105, 7028174, 7025267>> ) @@
    ( <<0, 249221>>      :> <<6691999, 6692311, 6689431>> ) @@
    ( <<0, 249384>>      :> <<6691999, 6692311, 6689431>> ) @@
    ( <<0, 249408>>      :> <<6691999, 6692311, 6689431>> ) @@
    ( <<0, 249525>>      :> <<6692000, 6692311, 6689431>> ) @@
    ( <<601595, 0>>      :> <<1370235, 1371828, 1371602>> ) @@
    ( <<601595, 249221>> :> <<2568, 3334, 901>> ) @@
    ( <<601595, 249384>> :> <<2722, 2983, 0>> ) @@
    ( <<601595, 249408>> :> <<2769, 2951, 132>> ) @@
    ( <<601595, 249525>> :> <<3069, 2879, 780>> ) @@
    ( <<601746, 0>>      :> <<1369917, 1371509, 1371286>> ) @@
    ( <<601746, 249221>> :> <<889, 2065, 1905>> ) @@
    ( <<601746, 249384>> :> <<1266, 1431, 1679>> ) @@
    ( <<601746, 249408>> :> <<1364, 1364, 1684>> ) @@
    ( <<601746, 249525>> :> <<1901, 1200, 1851>> ) @@
    ( <<601826, 0>>      :> <<1369749, 1371341, 1371120>> ) @@
    ( <<601826, 249221>> :> <<0, 1709, 2722>> ) @@
    ( <<601826, 249384>> :> <<901, 839, 2568>> ) @@
    ( <<601826, 249408>> :> <<1033, 717, 2572>> ) @@
    ( <<601826, 249525>> :> <<1680, 311, 2684>> ) @@
    ( <<601854, 0>>      :> <<1369690, 1371282, 1371062>> ) @@
    ( <<601854, 249221>> :> <<311, 1680, 3017>> ) @@
    ( <<601854, 249384>> :> <<953, 779, 2879>> ) @@
    ( <<601854, 249408>> :> <<1079, 646, 2883>> ) @@
    ( <<601854, 249525>> :> <<1709, 0, 2983>> )

AreaIndex(lat2, lon2) ==
    CHOOSE i \in DOMAIN TARGET_AREAS :
        TARGET_AREAS[i].lat = lat2 /\ TARGET_AREAS[i].lon = lon2

haversine(lat1, lon1, lat2, lon2) ==
    HaversineMetres[<<lat1, lon1>>][AreaIndex(lat2, lon2)]

\* round(x, 2) of a distance in km given in metres, as a number of 1/100 km
Round2(metres) == (metres + 5) \div 10

\* a minimum selection that keeps the last of the minimal keys
MinKeyLast(distances) ==
    CHOOSE i \in DOMAIN distances :
        /\ \A j \in DOMAIN distances : distances[i] <= distances[j]
        /\ \A j \in DOMAIN distances : j > i => distances[j] # distances[i]

\* min(distances, key=distances.get): the first key, in insertion order, whose
\* value is minimal
MinKey(distances) ==
    CHOOSE i \in DOMAIN distances :
        /\ \A j \in DOMAIN distances : distances[i] <= distances[j]
        /\ \A j \in DOMAIN distances : j < i => distances[j] # distances[i]

get_nearest_area(lat, lon) ==
    LET distances == [i \in DOMAIN TARGET_AREAS |->
                        haversine(lat, lon, TARGET_AREAS[i].lat, TARGET_AREAS[i].lon)]
        nearest == MinKey(distances)
    IN  <<TARGET_AREAS[nearest].name, Round2(distances[nearest])>>

-----------------------------------------------------------------------------
(* Text helpers of the field extractor *)

Space == " "
Bullet == "BULLET"     \* the delimiter character of the heading
Euro == "EUR"          \* the currency symbol

RECURSIVE LStrip(_)
LStrip(t) == IF t # <<>> /\ Head(t) = Space THEN LStrip(Tail(t)) ELSE t

RECURSIVE RStrip(_)
RStrip(t) ==
    IF t # <<>> /\ t[Len(t)] = Space THEN RStrip(SubSeq(t, 1, Len(t) - 1)) ELSE t

\* str.strip(), and get_text(strip=True) of an element holding one string
Strip(t) == RStrip(LStrip(t))

Contains(t, tok) == \E i \in DOMAIN t : t[i] = tok

RECURSIVE Split(_, _)
\* str.split(sep): the pieces between the separators, at least one piece
Split(t, sep) ==
    IF ~Contains(t, sep) THEN <<t>>
    ELSE LET i == CHOOSE k \in DOMAIN t : t[k] = sep /\ \A j \in 1..(k - 1) : t[j] # sep
         IN  <<SubSeq(t, 1, i - 1)>> \o Split(SubSeq(t, i + 1, Len(t)), sep)

-----------------------------------------------------------------------------
(* Coordinates: the regular expression and float() *)

Digits == {"0", "1", "2", "3", "4", "5", "6", "7", "8", "9"}

DigitVal(c) ==
    CASE c = "0" -> 0 [] c = "1" -> 1 [] c = "2" -> 2 [] c = "3" -> 3 [] c = "4" -> 4
      [] c = "5" -> 5 [] c = "6" -> 6 [] c = "7" -> 7 [] c = "8" -> 8 [] c = "9" -> 9

\* re.search(r'\[<attr>\]="([\d\.]+)"', tag_str): the attribute's value when
\* the attribute is there and its value is one or more digits and dots
ReSearch(attrValue) ==
    IF /\ attrValue # None
       /\ Len(attrValue[1]) >= 1
       /\ \A i \in DOMAIN attrValue[1] : attrValue[1][i] \in Digits \cup {"."}
    THEN Some(attrValue[1])
    ELSE None

DotCount(s) == Cardinality({i \in DOMAIN s : s[i] = "."})

\* float(s) raises ValueError on a digits-and-dots string unless it has
\* at most one dot and at least one digit
FloatRaises(s) == DotCount(s) > 1 \/ DotCount(s) = Len(s)

RECURSIVE IntOf(_)
IntOf(ds) == IF ds = <<>> THEN 0 ELSE IntOf(SubSeq(ds, 1, Len(ds) - 1)) * 10 + DigitVal(ds[Len(ds)])

Pow10(n) == CASE n = 0 -> 1 [] n = 1 -> 10 [] n = 2 -> 100 [] n = 3 -> 1000 [] n = 4 -> 10000

\* float(s) of a valid string, in 1/10000 (fraction digits after the fourth
\* are below the resolution of the model)
FloatOf(s) ==
    LET dot == IF DotCount(s) = 0 THEN Len(s) + 1 ELSE CHOOSE i \in DOMAIN s : s[i] = "."
        whole == SubSeq(s, 1, dot - 1)
        frac == SubSeq(s, dot + 1, IF Len(s) < dot + 4 THEN Len(s) ELSE dot + 4)
    IN  IntOf(whole) * 10000 + IntOf(frac) * Pow10(4 - Len(frac))

\* Python truthiness of an Optional[float]: None and 0.0 are false
Truthy(x) == x # None /\ x[1] # 0

-----------------------------------------------------------------------------
(* scrape_listing, piece by piece *)

\* lines 93-97: address and rooms from the first <h1>
ExtractAddress(page) ==
    LET raw_address == IF page.h1 # None THEN Strip(page.h1[1]) ELSE EmptyText
        parts == Split(raw_address, Bullet)
    IN  [address |-> Strip(parts[1]),
         rooms |-> IF Len(parts) > 1 THEN Strip(parts[2]) ELSE EmptyText]

\* lines 100-101: the first <span> whose string contains the currency symbol
ExtractPrice(page) ==
    IF \E i \in DOMAIN page.spans : Contains(page.spans[i], Euro)
    THEN LET i == CHOOSE k \in DOMAIN page.spans :
                    /\ Contains(page.spans[k], Euro)
                    /\ \A j \in 1..(k - 1) : ~Contains(page.spans[j], Euro)
         IN  Strip(page.spans[i])
    ELSE EmptyText

RECURSIVE AreaFloorLoop(_, _)
\* lines 105-114: the loop over the <dt> elements; acc is (area, floor)
AreaFloorLoop(dts, acc) ==
    IF dts = <<>> THEN acc
    ELSE LET dt == Head(dts)
         IN  IF dt.dd = None THEN AreaFloorLoop(Tail(dts), acc)
             ELSE LET val == Strip(dt.dd[1])
                      a1 == IF Contains(dt.key, "Asuinpinta-ala")
                            THEN [acc EXCEPT !.area = val] ELSE acc
                      a2 == IF Contains(dt.key, "Kerros")
                            THEN [a1 EXCEPT !.floor = val] ELSE a1
                  IN  AreaFloorLoop(Tail(dts), a2)

\* lines 104-114
ExtractAreaFloor(page) == AreaFloorLoop(page.dts, [area |-> EmptyText, floor |-> EmptyText])

\* lines 117-118: the <p class="paragraph--keep-formatting"> blocks, joined
ExtractDescription(page) ==
    Concat([i \in DOMAIN page.ps |-> Strip(page.ps[i])], "\n\n")

\* lines 121-122: the data-big attribute of every <img> that has one
ExtractImages(page) ==
    LET has == SelectSeq(page.imgs, LAMBDA img : img # None)
    IN  [i \in DOMAIN has |-> has[i][1]]

\* lines 126-136: raised is TRUE when float() raises ValueError
ExtractCoordinates(page) ==
    LET none == [raised |-> FALSE, latitude |-> None, longitude |-> None]
    IN  IF page.map = None THEN none
        ELSE LET lat_match == ReSearch(page.map[1].lat)
                 lon_match == ReSearch(page.map[1].lon)
             IN  IF lat_match # None /\ lon_match # None
                 THEN IF FloatRaises(lat_match[1]) \/ FloatRaises(lon_match[1])
                      THEN [none EXCEPT !.raised = TRUE]
                      ELSE [raised |-> FALSE,
                            latitude |-> Some(FloatOf(lat_match[1])),
                            longitude |-> Some(FloatOf(lon_match[1]))]
                 ELSE none

\* lines 139-147: the nearest target area, computed inline
DetermineNearest(latitude, longitude) ==
    IF Truthy(latitude) /\ Truthy(longitude)
    THEN LET distances == [i \in DOMAIN TARGET_AREAS |->
                             haversine(latitude[1], longitude[1],
                                       TARGET_AREAS[i].lat, TARGET_AREAS[i].lon)]
             nearest_target == MinKey(distances)
         IN  [nearest_target |-> <<TARGET_AREAS[nearest_target].name>>,
              distance_to_target |-> Some(Round2(distances[nearest_target]))]
    ELSE [nearest_target |-> EmptyText, distance_to_target |-> None]

\* lines 87-166: the Listing, or the HTTPException(500) with its cause
scrape_listing(url, page, uuid) ==
    IF page.fetch # "ok"
    THEN [status |-> 500, detail |-> <<"Scraping failed: ", page.fetch>>]
    ELSE LET ar == ExtractAddress(page)
             af == ExtractAreaFloor(page)
             co == ExtractCoordinates(page)
             nt == DetermineNearest(co.latitude, co.longitude)
         IN  IF co.raised
             THEN [status |-> 500, detail |-> <<"Scraping failed: ", "ValueError">>]
             ELSE [status |-> 200,
                   listing |->
                     [id |-> uuid,
                      url |-> url,
                      address |-> ar.address,
                      price |-> ExtractPrice(page),
                      area |-> af.area,
                      floor |-> af.floor,
                      rooms |-> ar.rooms,
                      description |-> ExtractDescription(page),
                      image_urls |-> ExtractImages(page),
                      latitude |-> co.latitude,
                      longitude |-> co.longitude,
                      nearest_target |-> nt.nearest_target,
                      distance_to_target_km |-> nt.distance_to_target]]

-----------------------------------------------------------------------------
(* The store: listings.json *)

JNull == [t |-> "null"]
JNumber(x) == [t |-> "number", v |-> x]

\* json.dump of an Optional[float]
JsonOfOptional(x) == IF x = None THEN JNull ELSE JNumber(x[1])

\* what the Listing model makes of a JSON null or number
OptionalOfJson(j) == IF j.t = "null" THEN None ELSE Some(j.v)

\* line 69: listing.dict(), as json.dump writes it
JsonOfListing(l) ==
    [id |-> l.id, url |-> l.url, address |-> l.address, price |-> l.price,
     area |-> l.area, floor |-> l.floor, rooms |-> l.rooms,
     description |-> l.description, image_urls |-> l.image_urls,
     latitude |-> JsonOfOptional(l.latitude),
     longitude |-> JsonOfOptional(l.longitude),
     nearest_target |-> l.nearest_target,
     distance_to_target_km |-> JsonOfOptional(l.distance_to_target_km)]

\* line 65: Listing(**item)
ListingOfJson(item) ==
    [id |-> item.id, url |-> item.url, address |-> item.address, price |-> item.price,
     area |-> item.area, floor |-> item.floor, rooms |-> item.rooms,
     description |-> item.description, image_urls |-> item.image_urls,
     latitude |-> OptionalOfJson(item.latitude),
     longitude |-> OptionalOfJson(item.longitude),
     nearest_target |-> item.nearest_target,
     distance_to_target_km |-> OptionalOfJson(item.distance_to_target_km)]

NoFile == [exists |-> FALSE, items |-> <<>>]

\* lines 60-65
load_data(f) ==
    IF ~f.exists THEN <<>>
    ELSE [i \in DOMAIN f.items |-> ListingOfJson(f.items[i])]

\* lines 67-69: the file after save_data(listings)
save_data(listings) ==
    [exists |-> TRUE, items |-> [i \in DOMAIN listings |-> JsonOfListing(listings[i])]]

-----------------------------------------------------------------------------
(* The handlers, as functions of the file they find *)

\* a duplicate check that looks at the last listing only
UrlPresentLast(listings, url) ==
    listings # <<>> /\ listings[Len(listings)].url = url

\* line 175: any(l.url == input.url for l in listings)
UrlPresent(listings, url) == \E i \in DOMAIN listings : listings[i].url = url

\* listings.insert(0, new_listing)
ListPrepend(listings, new_listing) == <<new_listing>> \o listings

\* listings = [new_listing]
ListOnlyNew(listings, new_listing) == <<new_listing>>

\* line 178: listings.append(new_listing)
ListAppend(listings, new_listing) == Append(listings, new_listing)

\* a removal that also drops what follows the first match
FilterOutFrom(data, listing_id) ==
    IF \E i \in DOMAIN data : data[i].id = listing_id
    THEN LET i == CHOOSE k \in DOMAIN data :
                    data[k].id = listing_id /\ \A j \in 1..(k - 1) : data[j].id # listing_id
         IN  SubSeq(data, 1, i - 1)
    ELSE data

\* line 185: [l for l in data if l.id != listing_id]
FilterOut(data, listing_id) == SelectSeq(data, LAMBDA l : l.id # listing_id)

\* len(updated_data) == 0
NothingLeft(updated_data, data) == Len(updated_data) = 0

\* line 187: len(updated_data) == len(data)
NothingRemoved(updated_data, data) == Len(updated_data) = Len(data)

\* lines 168-170
get_listings(f) ==
    [status |-> 200, detail |-> <<>>, result |-> load_data(f), file |-> f,
     scraped |-> FALSE, saves |-> 0, uuids |-> 0]

\* add_listing with the scrape moved before the duplicate check
add_listing_scrape_first(f, url, page, uuid) ==
    LET listings == load_data(f)
        r == scrape_listing(url, page, uuid)
    IN  IF UrlPresent(listings, url)
        THEN [status |-> 400, detail |-> <<"Listing with this URL already exists.">>,
              result |-> <<>>, file |-> f, scraped |-> TRUE, saves |-> 0, uuids |-> 0]
        ELSE IF r.status # 200
             THEN [status |-> r.status, detail |-> r.detail, result |-> <<>>,
                   file |-> f, scraped |-> TRUE, saves |-> 0, uuids |-> 0]
             ELSE [status |-> 200, detail |-> <<>>, result |-> <<r.listing>>,
                   file |-> save_data(ListAppend(listings, r.listing)),
                   scraped |-> TRUE, saves |-> 1, uuids |-> 1]

\* add_listing with a save_data(listings) before the scrape
add_listing_save_first(f, url, page, uuid) ==
    LET listings == load_data(f)
    IN  IF UrlPresent(listings, url)
        THEN [status |-> 400, detail |-> <<"Listing with this URL already exists.">>,
              result |-> <<>>, file |-> f, scraped |-> FALSE, saves |-> 0, uuids |-> 0]
        ELSE LET r == scrape_listing(url, page, uuid)
             IN  IF r.status # 200
                 THEN [status |-> r.status, detail |-> r.detail, result |-> <<>>,
                       file |-> save_data(listings), scraped |-> TRUE, saves |-> 1,
                       uuids |-> 0]
                 ELSE [status |-> 200, detail |-> <<>>, result |-> <<r.listing>>,
                       file |-> save_data(ListAppend(listings, r.listing)),
                       scraped |-> TRUE, saves |-> 2, uuids |-> 1]

\* lines 172-180; uuid is the value uuid4() returns if it is called
add_listing(f, url, page, uuid) ==
    LET listings == load_data(f)
    IN  IF UrlPresent(listings, url)
        THEN [status |-> 400, detail |-> <<"Listing with this URL already exists.">>,
              result |-> <<>>, file |-> f, scraped |-> FALSE, saves |-> 0, uuids |-> 0]
        ELSE LET r == scrape_listing(url, page, uuid)
             IN  IF r.status # 200
                 THEN [status |-> r.status, detail |-> r.detail, result |-> <<>>,
                       file |-> f, scraped |-> TRUE, saves |-> 0, uuids |-> 0]
                 ELSE [status |-> 200, detail |-> <<>>, result |-> <<r.listing>>,
                       file |-> save_data(ListAppend(listings, r.listing)),
                       scraped |-> TRUE, saves |-> 1, uuids |-> 1]

\* lines 182-191
delete_listing(f, listing_id) ==
    LET data == load_data(f)
        updated_data == FilterOut(data, listing_id)
    IN  IF NothingRemoved(updated_data, data)
        THEN [status |-> 404, detail |-> <<"Listing not found">>, result |-> <<>>,
              file |-> f, scraped |-> FALSE, saves |-> 0, uuids |-> 0]
        ELSE [status |-> 200, detail |-> <<>>, result |-> updated_data,
              file |-> save_data(updated_data), scraped |-> FALSE, saves |-> 1,
              uuids |-> 0]

-----------------------------------------------------------------------------
(* Inputs: URLs and fetched pages *)

URLs == {"https://site/a", "https://site/b", "https://site/c"}

\* values of the [latitude] attribute of <listing-map-container>; None: no attribute
LatAttrs ==
    { None,
      Some(<<"6", "0", ".", "1", "8", "5", "4">>),
      Some(<<"6", "0", ".", "1", "8", "2", "6">>),
      Some(<<"6", "0", ".", "1", "5", "9", "5">>),
      Some(<<"6", "0", ".", "1", "7", "4", "6">>),
      Some(<<"0">>),
      Some(<<"0", ".", "0">>),
      Some(<<"1", ".", "2", ".", "3">>),
      Some(<<".">>),
      Some(<<>>),
      Some(<<"-", "6", "0", ".", "1">>) }

\* values of the [longitude] attribute
LonAttrs ==
    { None,
      Some(<<"2", "4", ".", "9", "5", "2", "5">>),
      Some(<<"2", "4", ".", "9", "2", "2", "1">>),
      Some(<<"2", "4", ".", "9", "3", "8", "4">>),
      Some(<<"2", "4", ".", "9", "4", "0", "8">>),
      Some(<<"0">>),
      Some(<<"2", "4", ".", "9", ".", "1">>),
      Some(<<"2", "4", ",", "9", "5">>) }

Maps == {None} \cup {Some([lat |-> la, lon |-> lo]) : la \in LatAttrs, lo \in LonAttrs}

KallioMap == Some([lat |-> Some(<<"6", "0", ".", "1", "8", "5", "4">>), lon |-> Some(<<"2", "4", ".", "9", "5", "2", "5">>)])
BadMap == Some([lat |-> Some(<<"1", ".", "2", ".", "3">>), lon |-> Some(<<"2", "4", ".", "9", "5", "2", "5">>)])

\* the <h1>: absent, empty, without and with the delimiter
H1s ==
    { None,
      Some(<<>>),
      Some(<<Space, "Katu 1", Space>>),
      Some(<<"Katu 1", Space, Bullet, Space, "2h+k">>),
      Some(<<"Katu 1", Bullet, "2h+k", Bullet, "55 m2">>) }

\* the strings of the <span> elements, in document order
SpanLists ==
    { <<>>,
      << <<"Vuokra">> >>,
      << <<"Vuokra">>, <<"950", Space, Euro>>, <<"1200", Space, Euro>> >> }

\* the <dt> elements: the tokens of the label and the text of the following <dd>
DtLists ==
    { <<>>,
      << [key |-> <<"Asuinpinta-ala">>, dd |-> None],
         [key |-> <<"Kerros">>, dd |-> Some(<<"3/5">>)] >>,
      << [key |-> <<"Asuinpinta-ala">>, dd |-> Some(<<"55 m2">>)],
         [key |-> <<"Tyyppi">>, dd |-> Some(<<"Kerrostalo">>)],
         [key |-> <<"Kerros">>, dd |-> Some(<<"3/5">>)],
         [key |-> <<"Asuinpinta-ala">>, dd |-> Some(<<"56 m2">>)] >> }

\* the texts of the <p class="paragraph--keep-formatting"> elements
PLists == { <<>>, << <<"Valoisa">> >>, << <<"Valoisa">>, <<"Rauhallinen">> >> }

\* the data-big attribute of each <img>; None: the <img> has none
ImgLists == { <<>>, <<None>>, <<Some("img1"), None, Some("img2")>> }

BasePage ==
    [fetch |-> "ok",
     h1 |-> Some(<<"Katu 1", Space, Bullet, Space, "2h+k">>),
     spans |-> << <<"950", Space, Euro>> >>,
     dts |-> << [key |-> <<"Kerros">>, dd |-> Some(<<"3/5">>)] >>,
     ps |-> << <<"Valoisa">> >>,
     imgs |-> <<Some("img1")>>,
     map |-> KallioMap]

EmptyPage ==
    [fetch |-> "ok", h1 |-> None, spans |-> <<>>, dts |-> <<>>, ps |-> <<>>,
     imgs |-> <<>>, map |-> None]

\* requests.get raised (timeout, connection error)
FailedFetch == [EmptyPage EXCEPT !.fetch = "ConnectionError"]

\* the pages scrape_listing is tried on
Pages ==
    {FailedFetch}
    \cup {[BasePage EXCEPT !.map = m] : m \in Maps}
    \cup {[fetch |-> "ok", h1 |-> h, spans |-> sp, dts |-> dt, ps |-> ps, imgs |-> im,
           map |-> m] :
            h \in H1s, sp \in SpanLists, dt \in DtLists, ps \in PLists, im \in ImgLists,
            m \in {None}}

\* the pages the add handler is tried on
StorePages == {FailedFetch, BasePage, EmptyPage, [BasePage EXCEPT !.map = BadMap]}

ListingIds == 1..(MaxIds + 1)

-----------------------------------------------------------------------------
(* Initial state: no listings.json, no request served *)

Threads == {1, 2}

NoRequest ==
    [op |-> "none", arg |-> <<>>, before |-> NoFile, status |-> 0, detail |-> <<>>,
     result |-> <<>>, scraped |-> FALSE, saves |-> 0,
     prevOp |-> "none", prevStatus |-> 0, prevResult |-> <<>>]

Idle == [call |-> "idle"]

Init ==
    /\ file = NoFile
    /\ nextId = 0
    /\ last = NoRequest
    /\ scr = Idle
    /\ pc = [w \in Threads |-> "idle"]
    /\ req = [w \in Threads |-> [op |-> "none"]]
    /\ loc = [w \in Threads |-> <<>>]
    /\ acks = {}
    /\ served = 0
    /\ raced = FALSE

-----------------------------------------------------------------------------
(* Requests served one after the other: each handler runs to completion *)

concVars == <<pc, req, loc, acks, served, raced>>

\* the record of a completed request
Completed(op, arg, out) ==
    [op |-> op, arg |-> arg, before |-> file, status |-> out.status,
     detail |-> out.detail, result |-> out.result, scraped |-> out.scraped,
     saves |-> out.saves,
     prevOp |-> last.op, prevStatus |-> last.status, prevResult |-> last.result]

GetListings ==
    LET out == get_listings(file)
    IN  /\ file' = out.file
        /\ last' = Completed("list", <<>>, out)
        /\ UNCHANGED <<nextId, scr, concVars>>

AddListing ==
    \E url \in URLs, page \in StorePages :
        LET out == add_listing(file, url, page, nextId + 1)
        IN  /\ nextId + out.uuids <= MaxIds
            /\ file' = out.file
            /\ nextId' = nextId + out.uuids
            /\ last' = Completed("add", <<url, page>>, out)
            /\ UNCHANGED <<scr, concVars>>

DeleteListing ==
    \E listing_id \in ListingIds :
        LET out == delete_listing(file, listing_id)
        IN  /\ file' = out.file
            /\ last' = Completed("delete", <<listing_id>>, out)
            /\ UNCHANGED <<nextId, scr, concVars>>

Next == GetListings \/ AddListing \/ DeleteListing

Spec == Init /\ [][Next]_vars

-----------------------------------------------------------------------------
(* The scraper and the nearest-area function on their own *)

ScrapeListing ==
    /\ scr = Idle
    /\ \E url \in URLs, page \in Pages :
        LET r == scrape_listing(url, page, nextId + 1)
            drawn == IF r.status = 200 THEN 1 ELSE 0
        IN  /\ nextId + drawn <= MaxIds
            /\ nextId' = nextId + drawn
            /\ scr' = [call |-> "scrape_listing", url |-> url, page |-> page, res |-> r]
    /\ UNCHANGED <<file, last, concVars>>

GetNearestArea ==
    /\ scr = Idle
    /\ \E lat \in Lats, lon \in Lons :
        scr' = [call |-> "get_nearest_area", lat |-> lat, lon |-> lon,
                res |-> get_nearest_area(lat, lon)]
    /\ UNCHANGED <<file, nextId, last, concVars>>

Return ==
    /\ scr # Idle
    /\ scr' = Idle
    /\ UNCHANGED <<file, nextId, last, concVars>>

ScrapeNext == ScrapeListing \/ GetNearestArea \/ Return

ScrapeSpec == Init /\ [][ScrapeNext]_vars

-----------------------------------------------------------------------------
(* Claims about the handlers, requests served one after the other (Spec) *)

ItemUrls(f) == {f.items[i].url : i \in DOMAIN f.items}
ItemIds(f) == {f.items[i].id : i \in DOMAIN f.items}

\* C1: no two listings of the persisted collection have the same url.
C1_UrlUnique ==
    \A i, j \in DOMAIN file.items :
        i # j => file.items[i].url # file.items[j].url

\* two listings are stored and a further add of one of their URLs was just refused
C1_Witness ==
    /\ Len(file.items) = 2
    /\ last.op = "add"
    /\ last.status = 400
    /\ last.arg[1] \in ItemUrls(file)

\* C2: an add whose URL is already in the persisted collection fails with the
\* duplicate-URL error (400), does not call the scraper, and leaves the file as
\* it was.
C2_DuplicateAddRejected ==
    (last.op = "add" /\ last.arg[1] \in ItemUrls(last.before)) =>
        /\ last.status = 400
        /\ last.detail = <<"Listing with this URL already exists.">>
        /\ ~last.scraped
        /\ last.saves = 0
        /\ file = last.before

\* a duplicate of the first of two stored listings was just refused
C2_Witness ==
    /\ last.op = "add"
    /\ Len(last.before.items) = 2
    /\ last.before.items[1].url = last.arg[1]
    /\ last.status = 400

\* C3: a delete whose identifier matches no listing fails with not-found (404),
\* saves nothing and leaves the file as it was, also when there is no file.
C3_UnknownDeleteRejected ==
    (last.op = "delete" /\ last.arg[1] \notin ItemIds(last.before)) =>
        /\ last.status = 404
        /\ last.detail = <<"Listing not found">>
        /\ last.saves = 0
        /\ file = last.before

\* a delete on a store whose file does not exist was just refused, and there is
\* still no file
C3_Witness ==
    /\ last.op = "delete"
    /\ last.status = 404
    /\ ~last.before.exists
    /\ ~file.exists

\* the JSON collection without the listings of that id
ItemsWithout(items, id) == SelectSeq(items, LAMBDA item : item.id # id)

\* C4: an add of a new URL whose fetch or parse fails returns 500 with the cause
\* and leaves the file untouched; after any add or delete the file is either the
\* fully updated collection (success) or the file before the request (failure).
C4_AllOrNothing ==
    /\ (last.op = "add" /\ last.arg[1] \notin ItemUrls(last.before)
            /\ last.arg[2].fetch # "ok") =>
          /\ last.status = 500
          /\ last.detail = <<"Scraping failed: ", last.arg[2].fetch>>
    /\ (last.op = "add" /\ last.status = 500) =>
          /\ last.detail[1] = "Scraping failed: "
          /\ Len(last.detail) = 2
    /\ (last.op \in {"add", "delete"} /\ last.status # 200) =>
          /\ last.saves = 0
          /\ file = last.before
    /\ (last.op = "add" /\ last.status = 200) =>
          /\ file.exists
          /\ Len(file.items) = Len(last.before.items) + 1
          /\ SubSeq(file.items, 1, Len(last.before.items)) = last.before.items
          /\ file.items[Len(file.items)].url = last.arg[1]
    /\ (last.op = "delete" /\ last.status = 200) =>
          /\ file.exists
          /\ file.items = ItemsWithout(last.before.items, last.arg[1])

\* an add of a new URL to a store that has no file yet just failed in the fetch
C4_Witness ==
    /\ last.op = "add"
    /\ last.status = 500
    /\ last.arg[2].fetch # "ok"
    /\ ~last.before.exists
    /\ ~file.exists

\* C5: a successful add appends exactly one record at the end; the returned
\* record is that record, its url is the requested one, and the listings that
\* were there are unchanged and in the same order.
C5_SuccessfulAddAppends ==
    (last.op = "add" /\ last.status = 200) =>
        /\ last.arg[1] \notin ItemUrls(last.before)
        /\ Len(last.result) = 1
        /\ last.result[1].url = last.arg[1]
        /\ Len(file.items) = Len(last.before.items) + 1
        /\ \A i \in DOMAIN last.before.items : file.items[i] = last.before.items[i]
        /\ ListingOfJson(file.items[Len(file.items)]) = last.result[1]
        /\ last.result[1].id \notin ItemIds(last.before)

\* a listing with coordinates was just added behind an existing one
C5_Witness ==
    /\ last.op = "add"
    /\ last.status = 200
    /\ Len(last.before.items) >= 1
    /\ last.result[1].latitude # None

\* C6: a successful delete leaves no listing with that identifier and every
\* other listing, unchanged and in order; it returns the persisted collection,
\* and a following list request returns the same collection.
C6_SuccessfulDelete ==
    /\ (last.op = "delete" /\ last.arg[1] \in ItemIds(last.before)) =>
          /\ last.status = 200
          /\ last.arg[1] \notin ItemIds(file)
          /\ file.items = ItemsWithout(last.before.items, last.arg[1])
          /\ Len(last.result) = Len(file.items)
          /\ \A i \in DOMAIN file.items : ListingOfJson(file.items[i]) = last.result[i]
    /\ (last.op = "list" /\ last.prevOp = "delete" /\ last.prevStatus = 200) =>
          last.result = last.prevResult

\* the first of two listings was deleted and the list request that followed
\* returned the remaining one
C6_Witness ==
    /\ last.op = "list"
    /\ last.prevOp = "delete"
    /\ last.prevStatus = 200
    /\ Len(last.result) = 1
    /\ last.result[1].id = 2

-----------------------------------------------------------------------------
(* Requests served by concurrent worker threads: FastAPI runs these `def`      *)
(* handlers in a thread pool, and nothing locks listings.json.  A handler's     *)
(* steps are its load_data, its work in memory (with the scrape), and its       *)
(* save_data; each reads or writes the whole file.                              *)

ConcPages == {BasePage, FailedFetch}

seqVars == <<last, scr>>

InFlight(w) == pc[w] \in {"loaded", "save"}

Ack(w, status, id) ==
    [n |-> req[w].n, op |-> req[w].op, status |-> status, id |-> id]

\* lines 168-170: get_listings, a single read
ListC(w) ==
    /\ pc[w] = "idle"
    /\ served < MaxRequests
    /\ served' = served + 1
    /\ acks' = acks \cup {[n |-> served + 1, op |-> "list", status |-> 200, id |-> 0]}
    /\ raced' = (raced \/ \E v \in Threads \ {w} : InFlight(v))
    /\ UNCHANGED <<file, nextId, pc, req, loc, seqVars>>

\* line 174: add_listing starts, listings = load_data()
AddLoad(w) ==
    /\ pc[w] = "idle"
    /\ served < MaxRequests
    /\ \E url \in URLs, page \in ConcPages :
        req' = [req EXCEPT ![w] = [n |-> served + 1, op |-> "add", url |-> url,
                                   page |-> page]]
    /\ served' = served + 1
    /\ loc' = [loc EXCEPT ![w] = load_data(file)]
    /\ pc' = [pc EXCEPT ![w] = "loaded"]
    /\ raced' = (raced \/ \E v \in Threads \ {w} : InFlight(v))
    /\ UNCHANGED <<file, nextId, acks, seqVars>>

\* lines 175-178: the duplicate check, the scrape and the append
AddWork(w) ==
    /\ pc[w] = "loaded"
    /\ req[w].op = "add"
    /\ IF UrlPresent(loc[w], req[w].url)
       THEN /\ acks' = acks \cup {Ack(w, 400, 0)}
            /\ pc' = [pc EXCEPT ![w] = "idle"]
            /\ UNCHANGED <<nextId, loc>>
       ELSE LET r == scrape_listing(req[w].url, req[w].page, nextId + 1)
            IN  IF r.status # 200
                THEN /\ acks' = acks \cup {Ack(w, r.status, 0)}
                     /\ pc' = [pc EXCEPT ![w] = "idle"]
                     /\ UNCHANGED <<nextId, loc>>
                ELSE /\ nextId < MaxIds
                     /\ nextId' = nextId + 1
                     /\ loc' = [loc EXCEPT ![w] = ListAppend(loc[w], r.listing)]
                     /\ pc' = [pc EXCEPT ![w] = "save"]
                     /\ UNCHANGED acks
    /\ UNCHANGED <<file, req, served, raced, seqVars>>

\* line 184: delete_listing starts, data = load_data()
DeleteLoad(w) ==
    /\ pc[w] = "idle"
    /\ served < MaxRequests
    /\ \E listing_id \in ListingIds :
        req' = [req EXCEPT ![w] = [n |-> served + 1, op |-> "delete", id |-> listing_id]]
    /\ served' = served + 1
    /\ loc' = [loc EXCEPT ![w] = load_data(file)]
    /\ pc' = [pc EXCEPT ![w] = "loaded"]
    /\ raced' = (raced \/ \E v \in Threads \ {w} : InFlight(v))
    /\ UNCHANGED <<file, nextId, acks, seqVars>>

\* lines 185-188: the filter and the not-found check
DeleteWork(w) ==
    /\ pc[w] = "loaded"
    /\ req[w].op = "delete"
    /\ LET updated_data == FilterOut(loc[w], req[w].id)
       IN  IF NothingRemoved(updated_data, loc[w])
           THEN /\ acks' = acks \cup {Ack(w, 404, 0)}
                /\ pc' = [pc EXCEPT ![w] = "idle"]
                /\ UNCHANGED loc
           ELSE /\ loc' = [loc EXCEPT ![w] = updated_data]
                /\ pc' = [pc EXCEPT ![w] = "save"]
                /\ UNCHANGED acks
    /\ UNCHANGED <<file, nextId, req, served, raced, seqVars>>

\* lines 179-180 and 190-191: save_data and the 200 response
Save(w) ==
    /\ pc[w] = "save"
    /\ file' = save_data(loc[w])
    /\ acks' = acks \cup
         {Ack(w, 200, IF req[w].op = "add" THEN loc[w][Len(loc[w])].id ELSE req[w].id)}
    /\ pc' = [pc EXCEPT ![w] = "idle"]
    /\ UNCHANGED <<nextId, req, loc, served, raced, seqVars>>

ConcNext ==
    \E w \in Threads :
        \/ ListC(w)
        \/ AddLoad(w)
        \/ AddWork(w)
        \/ DeleteLoad(w)
        \/ DeleteWork(w)
        \/ Save(w)

ConcSpec == Init /\ [][ConcNext]_vars

-----------------------------------------------------------------------------
(* Claim about racing requests (ConcSpec) *)

Quiet == \A w \in Threads : pc[w] = "idle"

AckedDeletes == {a.id : a \in {d \in acks : d.op = "delete" /\ d.status = 200}}

\* every request has been answered, and an acknowledged add is missing from the
\* file without an acknowledged delete of it
LostAdd ==
    /\ Quiet
    /\ \E a \in acks :
        /\ a.op = "add"
        /\ a.status = 200
        /\ a.id \notin ItemIds(file)
        /\ a.id \notin AckedDeletes

\* every request has been answered, and a listing whose delete was acknowledged
\* is in the file
LostDelete ==
    /\ Quiet
    /\ \E d \in acks :
        /\ d.op = "delete"
        /\ d.status = 200
        /\ d.id \in ItemIds(file)

\* C7: updates are lost exactly through the unlocked load / modify / save: an
\* acknowledged add or delete is missing from the final file only when a handler
\* loaded the file while another one was between its load and its save; and
\* (C7_Witness) such a run of two successful requests exists.
C7_LostOnlyByRace == (LostAdd \/ LostDelete) => raced

\* two requests, both answered 200, and the file does not hold one of the two
\* listings that were acknowledged
C7_Witness ==
    /\ LostAdd
    /\ served = 2
    /\ Cardinality(acks) = 2
    /\ \A a \in acks : a.op = "add" /\ a.status = 200

\* an add and a delete raced, both were answered 200, and the deleted listing
\* is in the file again
C7_LostDeleteWitness ==
    /\ LostDelete
    /\ served = 3
    /\ \A a \in acks : a.status = 200

-----------------------------------------------------------------------------
(* Claims about scrape_listing and get_nearest_area (ScrapeSpec) *)

Scraped == scr.call = "scrape_listing" /\ scr.res.status = 200

\* an attribute value that is a decimal number: digits with at most one dot
IsNumber(v) ==
    /\ v # None
    /\ \A i \in DOMAIN v[1] : v[1][i] \in Digits \cup {"."}
    /\ Cardinality({i \in DOMAIN v[1] : v[1][i] = "."}) <= 1
    /\ \E i \in DOMAIN v[1] : v[1][i] \in Digits

\* C8: a scraped listing has a nearest target and a distance exactly when both
\* coordinates were extracted, whatever their values (0 included).
C8_ProximityIffCoordinates ==
    Scraped =>
        LET l == scr.res.listing
            found == l.latitude # None /\ l.longitude # None
        IN  /\ found => (l.nearest_target # EmptyText /\ l.distance_to_target_km # None)
            /\ ~found => (l.nearest_target = EmptyText /\ l.distance_to_target_km = None)

\* name and dist are the nearest target area of (lat, lon) and its rounded
\* distance, the first area of TARGET_AREAS winning a tie
IsNearest(lat, lon, name, dist) ==
    /\ name \in AreaNames
    /\ \E k \in DOMAIN TARGET_AREAS :
        LET d == HaversineMetres[<<lat, lon>>]
        IN  /\ TARGET_AREAS[k].name = name
            /\ \A i \in DOMAIN TARGET_AREAS : d[k] <= d[i]
            /\ \A i \in 1..(k - 1) : d[i] > d[k]
            /\ dist * 10 <= d[k] + 5
            /\ d[k] + 5 < (dist + 1) * 10
    /\ \A i \in DOMAIN TARGET_AREAS :
        (TARGET_AREAS[i].lat = lat /\ TARGET_AREAS[i].lon = lon) =>
            (name = TARGET_AREAS[i].name /\ dist = 0)

C10_ExtractionNeverFails ==
    (scr.call = "scrape_listing" /\ scr.page.fetch = "ok") =>
        /\ scr.res.status = 200
        /\ LET l == scr.res.listing
               page == scr.page
           IN  /\ (page.map = None \/ ~IsNumber(page.map[1].lat)
                      \/ ~IsNumber(page.map[1].lon)) =>
                     (l.latitude = None /\ l.longitude = None)
               /\ page.h1 = None => (l.address = EmptyText /\ l.rooms = EmptyText)
               /\ (\A i \in DOMAIN page.spans : ~Contains(page.spans[i], Euro)) =>
                     l.price = EmptyText
               /\ page.dts = <<>> => (l.area = EmptyText /\ l.floor = EmptyText)
               /\ page.ps = <<>> => l.description = EmptyText
               /\ (\A i \in DOMAIN page.imgs : page.imgs[i] = None) => l.image_urls = <<>>

====
